---- MODULE Spec2Model ----
(***************************************************************************)
(* Verification model of the debezium-platform conductor:                  *)
(*   - OperatorPipelineController (deploy / undeploy / start / stop /      *)
(*     sendSignal) together with the TableNameResolver it calls;           *)
(*   - the destination ConnectionValidators (Milvus, Redis, Qdrant,        *)
(*     Kinesis).                                                           *)
(* Strings are sequences of one-character strings.  The placeholder text   *)
(* "@{pipeline_name}" is the single token PH.                              *)
(***************************************************************************)
EXTENDS Integers, Sequences, FiniteSets, TLC

VARIABLES target, call, pipelineConfigGroup, vcall, invocations, clients, fcall, chat

vars == <<target, call, pipelineConfigGroup, vcall, invocations, clients, fcall, chat>>

(***************************************************************************)
(* Bounds of the model.                                                    *)
(***************************************************************************)
MaxId == 2
MaxTimeout == 2
MaxExtraDelay == 1
MaxCallers == 2

MaxSockets == 3

Ids == 1..MaxId

\* Java null for a String-valued reference.
Null == <<"<null>">>
\* The placeholder "@{pipeline_name}" as one token.
PH == "@{pipeline_name}"

(***************************************************************************)
(* TableNameResolver                                                       *)
(***************************************************************************)
MAX_IDENTIFIER_LENGTH == 63

LowerAlphabet ==
    <<"a", "b", "c", "d", "e", "f", "g", "h", "i", "j", "k", "l", "m",
      "n", "o", "p", "q", "r", "s", "t", "u", "v", "w", "x", "y", "z">>
UpperAlphabet ==
    <<"A", "B", "C", "D", "E", "F", "G", "H", "I", "J", "K", "L", "M",
      "N", "O", "P", "Q", "R", "S", "T", "U", "V", "W", "X", "Y", "Z">>

LowerLetters == {LowerAlphabet[i] : i \in DOMAIN LowerAlphabet}
UpperLetters == {UpperAlphabet[i] : i \in DOMAIN UpperAlphabet}
Digits == {"0", "1", "2", "3", "4", "5", "6", "7", "8", "9"}

\* The lower-case letter of every upper-case letter.
LowerOf ==
    [c \in UpperLetters |->
        LowerAlphabet[CHOOSE i \in DOMAIN UpperAlphabet : UpperAlphabet[i] = c]]

toLowerCase(c) == IF c \in UpperLetters THEN LowerOf[c] ELSE c

\* replaceAll("_+", "_"), computed on the two halves of the string.
RECURSIVE collapseUnderscores(_)
collapseUnderscores(s) ==
    IF Len(s) <= 1 THEN s
    ELSE LET half == Len(s) \div 2
             left == collapseUnderscores(SubSeq(s, 1, half))
             right == collapseUnderscores(SubSeq(s, half + 1, Len(s)))
         IN IF left[Len(left)] = "_" /\ right[1] = "_"
            THEN left \o Tail(right)
            ELSE left \o right

stripTrailingUnderscore(s) ==
    IF Len(s) > 0 /\ s[Len(s)] = "_" THEN SubSeq(s, 1, Len(s) - 1) ELSE s

\* sanitizeTableName on a non-empty string: the value it returns.
sanitizeTableName(tableName) ==
    LET lowered == [i \in 1..Len(tableName) |-> toLowerCase(tableName[i])]
        replaced == [i \in 1..Len(lowered) |->
                        IF lowered[i] \in LowerLetters \cup Digits \cup {"_"}
                        THEN lowered[i] ELSE "_"]
        prefixed == IF replaced[1] \in LowerLetters \cup {"_"}
                    THEN replaced ELSE <<"_">> \o replaced
        collapsed == collapseUnderscores(prefixed)
        trimmed == stripTrailingUnderscore(collapsed)
    IN IF Len(trimmed) > MAX_IDENTIFIER_LENGTH
       THEN stripTrailingUnderscore(SubSeq(trimmed, 1, MAX_IDENTIFIER_LENGTH))
       ELSE trimmed

hasPlaceholder(s) == \E i \in 1..Len(s) : s[i] = PH

RECURSIVE substitute(_, _)
substitute(s, name) ==
    IF s = <<>> THEN <<>>
    ELSE IF s[1] = PH THEN name \o substitute(Tail(s), name)
    ELSE <<s[1]>> \o substitute(Tail(s), name)

\* String.replaceAll reads "$" in the replacement as a group reference; the quoted
\* placeholder pattern has no groups, so a "$" in the name makes the call throw.
replacementThrows(name) == \E i \in 1..Len(name) : name[i] = "$"

\* resolve(pipeline, currentValue): [error |-> "none", value |-> ...] or the exception.
resolve(name, currentValue) ==
    IF currentValue = Null \/ currentValue = <<>>
    THEN [error |-> "none", value |-> currentValue]
    ELSE IF hasPlaceholder(currentValue) /\ replacementThrows(name)
    THEN [error |-> "IllegalArgumentException", value |-> Null]
    ELSE LET processedValue == substitute(currentValue, name)
         IN IF processedValue = <<>>
            THEN [error |-> "IllegalArgumentException", value |-> Null]
            ELSE [error |-> "none", value |-> sanitizeTableName(processedValue)]

(***************************************************************************)
(* Inputs of the controller                                                *)
(***************************************************************************)
Names == {<<>>, <<"a">>, <<"B", "-">>, <<"$">>}

Transform(id, hasPredicate) == [id |-> id, hasPredicate |-> hasPredicate]

TransformLists ==
    { <<>>,
      <<Transform(7, TRUE)>>,
      <<Transform(7, FALSE)>>,
      <<Transform(7, TRUE), Transform(8, TRUE)>>,
      <<Transform(7, TRUE), Transform(7, TRUE)>> }

\* nullPart names the attribute of the PipelineFlat that is null, if any.
NullParts == {"none", "logLevel", "source", "destination"}

\* Pipelines passed to deploy: every name with a well-formed body, and every
\* malformed body (a null attribute, a transform list that does not compile).
Pipelines ==
    [id : Ids, name : Names, nullPart : {"none"}, transforms : {<<Transform(7, TRUE)>>}]
    \cup [id : Ids, name : {<<"a">>}, nullPart : NullParts, transforms : {<<>>}]
    \cup [id : Ids, name : {<<"a">>}, nullPart : {"none"}, transforms : TransformLists]

Signals == {"log", "execute-snapshot"}

SCHEMA_HISTORY_TABLE_KEY == "jdbc.schema.history.table.name"
OFFSET_TABLE_KEY == "jdbc.offset.table.name"
RESOLVABLE_CONFIGS == <<SCHEMA_HISTORY_TABLE_KEY, OFFSET_TABLE_KEY>>

NoTables == [k \in {SCHEMA_HISTORY_TABLE_KEY, OFFSET_TABLE_KEY} |-> Null]

\* The process-wide storage settings (type and config map per axis).
GlobalConfigs ==
    { [offset |-> [type |-> "File", config |-> NoTables],
       schema |-> [type |-> "File", config |-> NoTables]],
      [offset |-> [type |-> "Jdbc",
                   config |-> [NoTables EXCEPT ![OFFSET_TABLE_KEY] = <<PH, "_", "a">>]],
       schema |-> [type |-> "Jdbc",
                   config |-> [NoTables EXCEPT ![SCHEMA_HISTORY_TABLE_KEY] = <<PH, "_", "b">>]]],
      [offset |-> [type |-> "Jdbc",
                   config |-> [NoTables EXCEPT ![OFFSET_TABLE_KEY] = <<PH>>]],
       schema |-> [type |-> "Unknown", config |-> NoTables]] }

(***************************************************************************)
(* DebeziumKubernetesAdapter: the deployment target.  A resource is        *)
(* [name, id, paused]; id is the debezium.io/conductor-id label.           *)
(***************************************************************************)
findAssociatedDebeziumServer(tgt, id) == {r \in tgt : r.id = id}

deployPipeline(tgt, ds) == {r \in tgt : r.id # ds.id} \cup {ds}

undeployPipeline(tgt, id) == {r \in tgt : r.id # id}

changeStatus(tgt, id, paused) ==
    {IF r.id = id THEN [r EXCEPT !.paused = paused] ELSE r : r \in tgt}

(***************************************************************************)
(* OperatorPipelineController.deploy                                       *)
(***************************************************************************)
\* Decimal rendering of integers (Long.toString, Integer.toString).
DigitChars == <<"0", "1", "2", "3", "4", "5", "6", "7", "8", "9">>

digitValue(c) == (CHOOSE i \in 1..10 : DigitChars[i] = c) - 1

isDigit(c) == \E i \in 1..10 : DigitChars[i] = c

RECURSIVE natToString(_)
natToString(n) ==
    IF n < 10 THEN <<DigitChars[n + 1]>>
    ELSE natToString(n \div 10) \o <<DigitChars[(n % 10) + 1]>>

intToString(n) == IF n < 0 THEN <<"-">> \o natToString(0 - n) ELSE natToString(n)

PREDICATE_PREFIX == <<"p">>

\* A mutation of getPredicateName: only the last digit of the id is printed.
getPredicateNameLastDigit(transform) ==
    PREDICATE_PREFIX \o <<DigitChars[(transform.id % 10) + 1]>>

\* String.format("%s%s", PREDICATE_PREFIX, transform.getId())
getPredicateName(transform) == PREDICATE_PREFIX \o intToString(transform.id)

\* The first exception thrown while resolving RESOLVABLE_CONFIGS against one config map.
resolveAll(name, config) ==
    LET r1 == resolve(name, config[RESOLVABLE_CONFIGS[1]])
        r2 == resolve(name, config[RESOLVABLE_CONFIGS[2]])
    IN IF r1.error # "none" THEN r1.error ELSE r2.error

getOffset(p, cfg) == resolveAll(p.name, cfg.offset.config)

getSchemaHistory(p, cfg) == resolveAll(p.name, cfg.schema.config)

\* buildTransformation dereferences transform.getPredicate() unconditionally.
buildTransformation(transform) ==
    IF transform.hasPredicate THEN "none" ELSE "NullPointerException"

buildTransformations(transforms) ==
    IF \E i \in 1..Len(transforms) : buildTransformation(transforms[i]) # "none"
    THEN "NullPointerException" ELSE "none"

\* Collectors.toMap throws on a duplicate key.
buildPredicates(transforms) ==
    IF \E i \in 1..Len(transforms) : ~transforms[i].hasPredicate
    THEN "NullPointerException"
    ELSE IF \E i, j \in 1..Len(transforms) :
               i # j /\ getPredicateName(transforms[i]) = getPredicateName(transforms[j])
    THEN "IllegalStateException" ELSE "none"

\* The exception a statement of deploy throws, "none" when it completes.
statementError(stmt, p, cfg) ==
    CASE stmt = "quarkus" ->
            IF p.nullPart = "logLevel" THEN "NullPointerException" ELSE "none"
      [] stmt = "source" ->
            IF p.nullPart = "source" THEN "NullPointerException" ELSE "none"
      [] stmt = "offset" -> getOffset(p, cfg)
      [] stmt = "schemaHistory" -> getSchemaHistory(p, cfg)
      [] stmt = "sink" ->
            IF p.nullPart = "destination" THEN "NullPointerException" ELSE "none"
      [] stmt = "transformations" -> buildTransformations(p.transforms)
      [] stmt = "predicates" -> buildPredicates(p.transforms)
      [] OTHER -> "none"

\* A mutation of buildDebeziumServer: the conductor-id label is not the pipeline's id.
buildDebeziumServerMislabeled(p) == [name |-> p.name, id |-> 1, paused |-> FALSE]

\* The resource deploy builds: named after the pipeline, labeled with its id.
buildDebeziumServer(p) == [name |-> p.name, id |-> p.id, paused |-> FALSE]

\* A mutation of deployStatements: the resource is applied before the transforms compile.
deployStatementsSubmitEarly ==
    <<"quarkus", "source", "offset", "schemaHistory", "sink",
      "submit", "transformations", "predicates">>

\* The statements of deploy in source order; "submit" is kubernetesAdapter.deployPipeline.
deployStatements ==
    <<"quarkus", "source", "offset", "schemaHistory", "sink",
      "transformations", "predicates", "submit">>

\* Runs the statements in order until one throws.
RECURSIVE exec(_, _, _, _)
exec(stmts, p, cfg, st) ==
    IF stmts = <<>> THEN st
    ELSE LET err == statementError(stmts[1], p, cfg)
         IN IF err # "none" THEN [st EXCEPT !.error = err]
            ELSE IF stmts[1] = "submit"
            THEN exec(Tail(stmts), p, cfg,
                      [st EXCEPT !.target = deployPipeline(st.target, buildDebeziumServer(p)),
                                 !.submits = st.submits + 1])
            ELSE exec(Tail(stmts), p, cfg, st)

deploy(p, cfg, tgt) ==
    exec(deployStatements, p, cfg, [target |-> tgt, error |-> "none", submits |-> 0])

(***************************************************************************)
(* OperatorPipelineController.undeploy / stop / start / findById /         *)
(* sendSignal                                                              *)
(***************************************************************************)
undeploy(tgt, pipelineId) == undeployPipeline(tgt, pipelineId)

\* A mutation of stop: the flag is passed the wrong way round.
stopClearsFlag(tgt, id) == changeStatus(tgt, id, FALSE)

stop(tgt, id) == changeStatus(tgt, id, TRUE)

start(tgt, id) == changeStatus(tgt, id, FALSE)

findById(tgt, id) == findAssociatedDebeziumServer(tgt, id)

\* A mutation of sendSignal: the signal is forwarded without looking the deployment up.
sendSignalUnchecked(tgt, pipelineId, signal) ==
    [error |-> "none", errorId |-> 0,
     forwarded |-> <<[signal |-> signal, id |-> pipelineId]>>]

\* forwarded lists the debeziumServerProxy.sendSignal calls the invocation makes.
sendSignal(tgt, pipelineId, signal) ==
    IF findById(tgt, pipelineId) # {}
    THEN [error |-> "none", errorId |-> 0,
          forwarded |-> <<[signal |-> signal,
                           id |-> (CHOOSE r \in findById(tgt, pipelineId) : TRUE).id]>>]
    ELSE [error |-> "DebeziumException: Pipeline with id %s not found",
          errorId |-> pipelineId, forwarded |-> <<>>]

(***************************************************************************)
(* The controller as a state machine.  call records the last invocation;   *)
(* call.before is the deployment with the call's id as it was found.       *)
(***************************************************************************)
NoPipeline == [id |-> 0, name |-> <<>>, nullPart |-> "none", transforms |-> <<>>]

NoCall ==
    [op |-> "none", id |-> 0, pipeline |-> NoPipeline, error |-> "none",
     errorId |-> 0, submits |-> 0, signal |-> "none", forwarded |-> <<>>,
     before |-> {}]

\* No validate call in progress; timeout is the validators' configured timeout.
Idle(timeout) == [validator |-> "none", timeout |-> timeout]

\* The threads that call validate concurrently.
Callers == 1..MaxCallers

\* A thread outside validate.
NoInvocation == [pc |-> "idle", input |-> 0, result |-> [valid |-> FALSE, message |-> ""]]

\* No client object exists; ref is the variable holding the client reference (0 is null).
NoClients == [status |-> [c \in Callers |-> "none"], closedBy |-> [c \in Callers |-> 0],
              ref |-> [slot \in {0} \cup Callers |-> 0]]

\* No storage configuration or table name has been computed.
NoApplication == [op |-> "none"]

\* ChatbotProvider: the sockets created so far and the reconnect timers.
maxReconnectAttempts == 5

SocketIds == 1..MaxSockets

\* The state after the first render: isOpen is false, the effect ran disconnectWebSocket.
NoChat ==
    [isOpen |-> FALSE, isLoading |-> FALSE, connectionStatus |-> "disconnected",
     wsRef |-> 0, reconnectTimeoutRef |-> 0, reconnectAttemptsRef |-> 0,
     sockets |-> [s \in SocketIds |-> "none"],
     timers |-> [t \in SocketIds |-> [state |-> "none", attempt |-> 0, delay |-> 0]]]

Init ==
    /\ target = {}
    /\ call = NoCall
    /\ pipelineConfigGroup \in GlobalConfigs
    /\ vcall = Idle(1)
    /\ invocations = [c \in Callers |-> NoInvocation]
    /\ clients = NoClients
    /\ fcall = NoApplication
    /\ chat = NoChat

Deploy(p) ==
    LET res == deploy(p, pipelineConfigGroup, target)
    IN /\ target' = res.target
       /\ call' = [NoCall EXCEPT !.op = "deploy", !.id = p.id, !.pipeline = p,
                                 !.error = res.error, !.submits = res.submits,
                                 !.before = findById(target, p.id)]
       /\ UNCHANGED <<chat, pipelineConfigGroup, vcall, invocations, clients, fcall>>

Undeploy(id) ==
    /\ target' = undeploy(target, id)
    /\ call' = [NoCall EXCEPT !.op = "undeploy", !.id = id,
                                 !.before = findById(target, id)]
    /\ UNCHANGED <<chat, pipelineConfigGroup, vcall, invocations, clients, fcall>>

Stop(id) ==
    /\ target' = stop(target, id)
    /\ call' = [NoCall EXCEPT !.op = "stop", !.id = id,
                                 !.before = findById(target, id)]
    /\ UNCHANGED <<chat, pipelineConfigGroup, vcall, invocations, clients, fcall>>

Start(id) ==
    /\ target' = start(target, id)
    /\ call' = [NoCall EXCEPT !.op = "start", !.id = id,
                                 !.before = findById(target, id)]
    /\ UNCHANGED <<chat, pipelineConfigGroup, vcall, invocations, clients, fcall>>

SendSignal(id, signal) ==
    LET res == sendSignal(target, id, signal)
    IN /\ call' = [NoCall EXCEPT !.op = "sendSignal", !.id = id, !.signal = signal,
                                 !.error = res.error, !.errorId = res.errorId,
                                 !.forwarded = res.forwarded,
                                 !.before = findById(target, id)]
       /\ UNCHANGED <<chat, target, pipelineConfigGroup, vcall, invocations, clients, fcall>>

Next ==
    \/ \E p \in Pipelines : Deploy(p)
    \/ \E id \in Ids : Undeploy(id)
    \/ \E id \in Ids : Stop(id)
    \/ \E id \in Ids : Start(id)
    \/ \E id \in Ids, signal \in Signals : SendSignal(id, signal)

Spec == Init /\ [][Next]_vars

(***************************************************************************)
(* Properties of the controller                                            *)
(***************************************************************************)
BuildParts ==
    {"quarkus", "source", "offset", "schemaHistory", "sink", "transformations", "predicates"}

PartFails(p, cfg) == \E part \in BuildParts : statementError(part, p, cfg) # "none"

\* C1: a deploy call in which building any part of the spec fails ends with an error,
\* submits nothing and leaves the deployment target as it was; a call submits at most
\* once, and only when every part was built.
C1_DeployFailFast ==
    [][call'.op = "deploy" =>
         /\ call'.submits <= 1
         /\ (PartFails(call'.pipeline, pipelineConfigGroup) =>
                call'.error # "none" /\ call'.submits = 0 /\ target' = target)
         /\ (call'.submits = 1 => ~PartFails(call'.pipeline, pipelineConfigGroup))]_vars

C1_Witness ==
    /\ call.op = "deploy"
    /\ PartFails(call.pipeline, pipelineConfigGroup)
    /\ call.error # "none"
    /\ call.submits = 0
    /\ target # {}

\* C2: the target never holds two resources with the same pipeline id; a resource gets
\* its name and its id label from the deploy call that submitted it; a successful deploy
\* of an id that is already deployed replaces that resource and adds none.
C2_OneResourcePerPipeline ==
    /\ [](\A r1, r2 \in target : r1.id = r2.id => r1 = r2)
    /\ [][/\ \A r \in target' :
                \/ \E r0 \in target : r0.id = r.id /\ r0.name = r.name
                \/ /\ call'.op = "deploy"
                   /\ r.id = call'.pipeline.id
                   /\ r.name = call'.pipeline.name
          /\ (call'.op = "deploy" /\ call'.error = "none" =>
                /\ \E r \in target' : r.id = call'.pipeline.id
                /\ \A r \in target' : r.id = call'.pipeline.id => r.name = call'.pipeline.name
                /\ Cardinality(target') =
                      Cardinality(target) + (IF call'.before = {} THEN 1 ELSE 0))]_vars

C2_Witness ==
    /\ call.op = "deploy"
    /\ call.error = "none"
    /\ call.before # {}
    /\ \A r \in call.before : r.name # call.pipeline.name
    /\ Cardinality(target) = MaxId
    /\ \E r \in target : r.id = call.id /\ r.name = call.pipeline.name

\* C3: stop sets and start clears the paused flag of the deployment with the given id and
\* change nothing else; on a deployment already in that state the target is unchanged;
\* after a start or stop the flag is the one that call set.
C3_StartStopIdempotent ==
    /\ [](call.op \in {"start", "stop"} =>
            \A r \in target : r.id = call.id => r.paused = (call.op = "stop"))
    /\ [][call'.op \in {"start", "stop"} =>
            /\ \A r \in target : r.id # call'.id => r \in target'
            /\ \A r \in target : r.id = call'.id =>
                  [r EXCEPT !.paused = (call'.op = "stop")] \in target'
            /\ Cardinality(target') = Cardinality(target)
            /\ ((\A r \in target : r.id = call'.id => r.paused = (call'.op = "stop"))
                   => target' = target)]_vars

C3_Witness ==
    /\ call.op = "stop"
    /\ call.before # {}
    /\ \A r \in call.before : r.paused
    /\ \E r \in target : r.id = call.id /\ r.paused
    /\ \E r \in target : r.id # call.id /\ ~r.paused

\* C4: sendSignal forwards the signal exactly once, to the deployment with the given id,
\* when one exists at the time of the call; otherwise it fails with the not-found error
\* naming that id and forwards nothing.
C4_SendSignal ==
    call.op = "sendSignal" =>
        IF call.before # {}
        THEN /\ call.error = "none"
             /\ call.forwarded = <<[signal |-> call.signal, id |-> call.id]>>
        ELSE /\ call.error = "DebeziumException: Pipeline with id %s not found"
             /\ call.errorId = call.id
             /\ call.forwarded = <<>>

C4_Witness ==
    /\ call.op = "sendSignal"
    /\ call.before = {}
    /\ call.forwarded = <<>>
    /\ call.errorId = call.id
    /\ target # {}

(***************************************************************************)
(* Connection validators: configuration values.                            *)
(* A config map holds Objects: a value is [type, v]; an absent key has     *)
(* type "absent".  Strings are sequences of characters; "http://" and      *)
(* "https://" are single tokens.                                           *)
(***************************************************************************)
Absent == [type |-> "absent", v |-> <<>>]
NullValue == [type |-> "null", v |-> <<>>]
Str(s) == [type |-> "String", v |-> s]
IntV(n) == [type |-> "Integer", v |-> n]
Bool(b) == [type |-> "Boolean", v |-> b]
\* A Double with integral part whole and one fractional digit frac.
Dbl(whole, frac) == [type |-> "Double", v |-> <<whole, frac>>]

containsKey(config, key) == config[key].type # "absent"

\* Map.get(key) == null
isNull(config, key) == config[key].type \in {"absent", "null"}

\* Object.toString() of a non-null value.
toString(value) ==
    CASE value.type = "String" -> value.v
      [] value.type = "Integer" -> intToString(value.v)
      [] value.type = "Boolean" ->
            IF value.v THEN <<"t", "r", "u", "e">> ELSE <<"f", "a", "l", "s", "e">>
      [] value.type = "Double" ->
            intToString(value.v[1]) \o <<".">> \o natToString(value.v[2])

RECURSIVE trimLeft(_)
trimLeft(s) == IF s # <<>> /\ s[1] = " " THEN trimLeft(Tail(s)) ELSE s

RECURSIVE trimRight(_)
trimRight(s) ==
    IF s # <<>> /\ s[Len(s)] = " " THEN trimRight(SubSeq(s, 1, Len(s) - 1)) ELSE s

trim(s) == trimRight(trimLeft(s))

lowerCase(s) ==
    [i \in 1..Len(s) |-> CASE s[i] = "T" -> "t" [] s[i] = "F" -> "f" [] OTHER -> s[i]]

INT_MAX == 2147483647

RECURSIVE digitsValue(_)
digitsValue(s) ==
    IF s = <<>> THEN 0 ELSE digitsValue(SubSeq(s, 1, Len(s) - 1)) * 10 + digitValue(s[Len(s)])

\* Integer.parseInt: [ok |-> FALSE] stands for NumberFormatException.
parseInt(s) ==
    LET signed == s # <<>> /\ s[1] \in {"-", "+"}
        digits == IF signed THEN Tail(s) ELSE s
    IN IF digits = <<>> \/ Len(digits) > 10 \/ \E i \in 1..Len(digits) : ~isDigit(digits[i])
       THEN [ok |-> FALSE, v |-> 0]
       ELSE LET n == digitsValue(digits)
            IN IF signed /\ s[1] = "-"
               THEN IF n > INT_MAX + 1 THEN [ok |-> FALSE, v |-> 0] ELSE [ok |-> TRUE, v |-> 0 - n]
               ELSE IF n > INT_MAX THEN [ok |-> FALSE, v |-> 0] ELSE [ok |-> TRUE, v |-> n]

\* Boolean.parseBoolean
parseBoolean(s) == lowerCase(s) = <<"t", "r", "u", "e">>

(***************************************************************************)
(* ConnectionValidationResult and the outcome of a validate call.          *)
(***************************************************************************)
failed(message) == [valid |-> FALSE, message |-> message]
successful == [valid |-> TRUE, message |-> ""]

NULL_CONNECTION_MESSAGE == "Connection configuration cannot be null"

\* The result of one phase: kind is "ok", "failed" (a result was returned) or
\* "throws" (an exception left the method).
Passed == [kind |-> "ok", result |-> successful]
Rejected(message) == [kind |-> "failed", result |-> failed(message)]
Throws(exception) == [kind |-> "throws", result |-> failed(exception)]

(***************************************************************************)
(* Parameter validation of the four validators.                            *)
(* A connection is [kind, config]: kind "null" is a null Connection,       *)
(* "nullConfig" a Connection whose getConfig() is null.                    *)
(***************************************************************************)
AllKeys ==
    {"uri", "token", "host", "port", "useSsl", "username", "password",
     "hostname", "useTls", "apiKey", "region", "stream", "partitionKey"}

EmptyConfig == [k \in AllKeys |-> Absent]

\* containsKey / == null / toString().trim().isEmpty(), as every required-key check reads.
isBlankOrMissing(config, key) ==
    \/ ~containsKey(config, key)
    \/ isNull(config, key)
    \/ trim(toString(config[key])) = <<>>

startsWithScheme(uri) == uri # <<>> /\ uri[1] \in {"http://", "https://"}

\* MilvusConnectionValidator.validateConfiguration
milvusValidateConfiguration(config) ==
    IF isBlankOrMissing(config, "uri") THEN Rejected("URI must be specified")
    ELSE IF ~startsWithScheme(trim(toString(config["uri"])))
    THEN Rejected("URI must start with http:// or https://")
    ELSE Passed

\* A mutation of redisValidateConfiguration: the port is checked before the host.
redisValidateConfigurationPortFirst(config) ==
    IF ~containsKey(config, "port") \/ isNull(config, "port")
    THEN Rejected("Port must be specified")
    ELSE IF isBlankOrMissing(config, "host") THEN Rejected("Host must be specified")
    ELSE IF ~parseInt(toString(config["port"])).ok
    THEN Rejected("Port must be a valid integer")
    ELSE Passed

\* RedisConnectionValidator.validateConfiguration
redisValidateConfiguration(config) ==
    IF isBlankOrMissing(config, "host") THEN Rejected("Host must be specified")
    ELSE IF ~containsKey(config, "port") \/ isNull(config, "port")
    THEN Rejected("Port must be specified")
    ELSE IF ~parseInt(toString(config["port"])).ok
    THEN Rejected("Port must be a valid integer")
    ELSE IF containsKey(config, "useSsl")
    THEN IF isNull(config, "useSsl") THEN Throws("NullPointerException")
         ELSE IF lowerCase(trim(toString(config["useSsl"])))
                    \notin {<<"t", "r", "u", "e">>, <<"f", "a", "l", "s", "e">>}
         THEN Rejected("useSsl must be 'true' or 'false' if specified")
         ELSE Passed
    ELSE Passed

DEFAULT_PORT == 6334

\* QdrantConnectionValidator.getPortValue: [ok |-> FALSE] is NumberFormatException.
getPortValue(config) ==
    LET portValue == config["port"]
    IN CASE portValue.type = "Integer" -> [ok |-> TRUE, v |-> portValue.v]
         [] portValue.type = "String" -> parseInt(portValue.v)
         [] portValue.type = "Double" -> [ok |-> TRUE, v |-> portValue.v[1]]
         [] OTHER -> [ok |-> TRUE, v |-> DEFAULT_PORT]

\* QdrantConnectionValidator.validateConnectionParameters
qdrantValidateConnectionParameters(config) ==
    IF isBlankOrMissing(config, "hostname") THEN Rejected("Hostname must be specified")
    ELSE IF ~containsKey(config, "port") \/ isNull(config, "port")
    THEN Rejected("Port must be specified")
    ELSE IF ~getPortValue(config).ok THEN Rejected("Port must be a valid integer")
    ELSE IF getPortValue(config).v <= 0 \/ getPortValue(config).v > 65535
    THEN Rejected("Port must be between 1 and 65535")
    ELSE Passed

\* QdrantConnectionValidator.getBooleanValue(config, USE_TLS_KEY, false)
getBooleanValue(config, key) ==
    CASE config[key].type = "Boolean" -> config[key].v
      [] config[key].type = "String" -> parseBoolean(config[key].v)
      [] OTHER -> FALSE

\* KinesisConnectionValidator.validateConfiguration
kinesisValidateConfiguration(config) ==
    IF isBlankOrMissing(config, "region") THEN Rejected("Region must be specified")
    ELSE IF isBlankOrMissing(config, "stream") THEN Rejected("Stream name must be specified")
    ELSE Passed

(***************************************************************************)
(* Live validation.  env is what the endpoint and the SDK do during one    *)
(* validate call: answer is the cause the SDK reports, failAt whether it   *)
(* is reported by the client constructor or by the operation, delay the    *)
(* seconds until the endpoint answers, closeThrows whether close() throws. *)
(***************************************************************************)
Delays == 0..(MaxTimeout + MaxExtraDelay)

Answers ==
    {"ok", "oddReply", "unreachable", "deadline", "badCredentials", "unauthorized",
     "notFound", "serverError", "transportError", "interrupted"}

Envs == [answer : Answers, failAt : {"open", "call"}, delay : Delays, closeThrows : BOOLEAN]

Succeeds(cause) == cause \in {"ok", "oddReply"}

Min(a, b) == IF a < b THEN a ELSE b

\* The outcome of a phase together with what it did: clients opened, close() calls,
\* requests made to the endpoint (by the client's constructor or by the operation),
\* seconds spent waiting.
Outcome(phase, opened, closeCalls, calls, elapsed) ==
    [kind |-> phase.kind, result |-> phase.result, opened |-> opened,
     closeCalls |-> closeCalls, calls |-> calls, elapsed |-> elapsed]

\* A mutation of closeInFinally: the client is closed on the success path only.
closeOnSuccessOnly(opened, kind) == IF kind = "ok" THEN opened ELSE 0

\* The finally block of performConnectionValidation: close() is called on the client
\* if one was assigned, whatever the try block did; an exception of close() is swallowed.
closeInFinally(opened, kind) == opened

\* The substrings of the exception message that MilvusConnectionValidator looks for.
milvusExceptionTokens(cause) ==
    CASE cause = "deadline" -> {"deadline"}
      [] cause = "unreachable" -> {"UNAVAILABLE"}
      [] cause = "badCredentials" -> {"auth"}
      [] cause = "unauthorized" -> {"permission"}
      [] cause = "notFound" -> {"database", "not found"}
      [] OTHER -> {}

milvusClassify(tokens) ==
    IF tokens \cap {"timeout", "TimeoutException", "deadline"} # {}
    THEN "Connection timeout - please check host, port and network connectivity"
    ELSE IF tokens \cap {"authentication", "auth", "permission", "credentials",
                         "Unauthenticated"} # {}
    THEN "Authentication failed - please check username, password, or token"
    ELSE IF tokens \cap {"connect", "refused", "unreachable", "UNAVAILABLE"} # {}
    THEN "Cannot connect to Milvus server - please check host and port configuration"
    ELSE IF {"database", "not found"} \subseteq tokens
    THEN "Specified database does not exist - please check database name"
    ELSE "Failed to connect to Milvus: "

\* MilvusConnectionValidator.performConnectionValidation; rpcDeadlineMs bounds the wait.
milvusPerformConnectionValidation(config, env, timeout) ==
    LET cause == IF env.delay > timeout THEN "deadline" ELSE env.answer
        elapsed == Min(env.delay, timeout)
        opened == IF env.failAt = "open" /\ ~Succeeds(cause) THEN 0 ELSE 1
        phase == IF Succeeds(cause) THEN Passed
                 ELSE Rejected(milvusClassify(milvusExceptionTokens(cause)))
    IN Outcome(phase, opened, closeInFinally(opened, phase.kind), 1, elapsed)

\* RedisConnectionValidator.performConnectionValidation; the connection and socket
\* timeouts bound the wait.
redisPerformConnectionValidation(config, env, timeout) ==
    IF \/ containsKey(config, "username") /\ isNull(config, "username")
       \/ containsKey(config, "password") /\ isNull(config, "password")
    THEN Outcome(Throws("NullPointerException"), 0, 0, 0, 0)
    ELSE LET cause == IF env.delay > timeout THEN "deadline" ELSE env.answer
             elapsed == Min(env.delay, timeout)
             opened == IF env.failAt = "open" /\ ~Succeeds(cause) THEN 0 ELSE 1
             phase == CASE cause = "ok" -> Passed
                        [] cause = "oddReply" ->
                              Rejected("Unexpected PING response from Redis: ")
                        [] cause \in {"unreachable", "deadline"} ->
                              Rejected("Failed to connect to Redis: ")
                        [] OTHER -> Rejected("Unexpected error: ")
         IN Outcome(phase, opened, closeInFinally(opened, phase.kind), 1, elapsed)

\* QdrantConnectionValidator.performConnectionValidation; future.get(timeout) bounds the
\* wait.  The client is built without touching the network.
qdrantPerformConnectionValidation(config, env, timeout) ==
    LET useTls == getBooleanValue(config, "useTls")
        phase ==
            IF env.delay > timeout
            THEN Rejected("Connection timeout - please check hostname, port and network connectivity")
            ELSE CASE Succeeds(env.answer) -> Passed
                   [] env.answer = "unreachable" ->
                         IF useTls
                         THEN Rejected("TLS connection failed - check certificates and hostname")
                         ELSE Rejected("Qdrant server is unavailable - please check if the server is running")
                   [] env.answer = "badCredentials" ->
                         Rejected("Authentication failed - please check API key")
                   [] env.answer = "unauthorized" ->
                         Rejected("Permission denied - please check API key permissions")
                   [] env.answer = "deadline" ->
                         Rejected("Connection timeout - please check network connectivity")
                   [] env.answer \in {"notFound", "serverError"} -> Rejected("gRPC error: ")
                   [] env.answer = "transportError" -> Rejected("Failed to connect to Qdrant: ")
                   [] env.answer = "interrupted" ->
                         Rejected("Connection validation was interrupted")
    IN Outcome(phase, 1, closeInFinally(1, phase.kind), 1, Min(env.delay, timeout))

\* KinesisConnectionValidator.performConnectionValidation: the client is built with the
\* SDK's defaults, so the wait is the endpoint's; describeStreamSummary is sent twice.
kinesisPerformConnectionValidation(config, env, timeout) ==
    IF containsKey(config, "partitionKey") /\ isNull(config, "partitionKey")
    THEN Outcome(Rejected("Failed to validate Kinesis connection: "), 0, 0, 0, 0)
    ELSE LET calls == IF Succeeds(env.answer) THEN 2 ELSE 1
             phase == CASE Succeeds(env.answer) -> Passed
                        [] env.answer = "notFound" ->
                              Rejected("Stream not found: Please verify the stream name and region.")
                        [] env.answer = "unauthorized" ->
                              Rejected("Access denied: Check IAM permissions or credentials.")
                        [] env.answer \in {"unreachable", "deadline", "transportError"} ->
                              Rejected("Client error: ")
                        [] OTHER -> Rejected("Failed to validate Kinesis connection: ")
         IN Outcome(phase, 1, closeInFinally(1, phase.kind), calls, calls * env.delay)

(***************************************************************************)
(* validate                                                                *)
(***************************************************************************)
Validators == {"MILVUS", "REDIS", "QDRANT", "KINESIS"}

validateConfiguration(validator, config) ==
    CASE validator = "MILVUS" -> milvusValidateConfiguration(config)
      [] validator = "REDIS" -> redisValidateConfiguration(config)
      [] validator = "QDRANT" -> qdrantValidateConnectionParameters(config)
      [] validator = "KINESIS" -> kinesisValidateConfiguration(config)

performConnectionValidation(validator, config, env, timeout) ==
    CASE validator = "MILVUS" -> milvusPerformConnectionValidation(config, env, timeout)
      [] validator = "REDIS" -> redisPerformConnectionValidation(config, env, timeout)
      [] validator = "QDRANT" -> qdrantPerformConnectionValidation(config, env, timeout)
      [] validator = "KINESIS" -> kinesisPerformConnectionValidation(config, env, timeout)

\* The message of the outermost catch (Exception e) of validate.
unexpectedError(validator) ==
    IF validator \in {"MILVUS", "QDRANT"}
    THEN "Validation failed due to unexpected error: "
    ELSE "Unexpected error: "

\* A mutation of catchException: the exception leaves validate.
catchNothing(validator, outcome) == outcome

\* try { ... } catch (Exception e) { return failed(...) } around the body of validate.
catchException(validator, outcome) ==
    IF outcome.kind = "throws"
    THEN [outcome EXCEPT !.kind = "failed", !.result = failed(unexpectedError(validator))]
    ELSE outcome

validate(validator, connection, env, timeout) ==
    IF connection.kind = "null"
    THEN Outcome(Rejected(NULL_CONNECTION_MESSAGE), 0, 0, 0, 0)
    ELSE catchException(validator,
            IF connection.kind = "nullConfig"
            THEN Outcome(Throws("NullPointerException"), 0, 0, 0, 0)
            ELSE LET configValidation == validateConfiguration(validator, connection.config)
                 IN IF configValidation.kind # "ok"
                    THEN Outcome(configValidation, 0, 0, 0, 0)
                    ELSE performConnectionValidation(validator, connection.config, env, timeout))

(***************************************************************************)
(* Inputs of validate                                                      *)
(***************************************************************************)
TrueString == <<"t", "r", "u", "e">>

RequiredValues == {Absent, NullValue, Str(<<" ">>), Str(<<"h">>)}

UriValues ==
    {Absent, NullValue, Str(<<>>), Str(<<" ">>), Str(<<"h">>), Str(<<"http://", "h">>),
     Str(<<" ", "https://", "h">>)}

PortValues ==
    {Absent, NullValue, IntV(6379), IntV(0), IntV(70000), Str(<<"6", "3", "7", "9">>),
     Str(<<"x">>), Str(<<" ", "1">>), Dbl(6379, 5), Bool(TRUE)}

FlagValues == {Absent, NullValue, Str(TrueString), Str(<<"x">>), Bool(TRUE)}

OptionalValues == {Absent, NullValue, Str(<<"k">>)}

Configs(validator) ==
    CASE validator = "MILVUS" ->
            {[EmptyConfig EXCEPT !["uri"] = u, !["token"] = t] :
                u \in UriValues, t \in OptionalValues}
      [] validator = "REDIS" ->
            {[EmptyConfig EXCEPT !["host"] = h, !["port"] = p, !["useSsl"] = f,
                                 !["username"] = u] :
                h \in RequiredValues, p \in PortValues, f \in FlagValues,
                u \in OptionalValues}
      [] validator = "QDRANT" ->
            {[EmptyConfig EXCEPT !["hostname"] = h, !["port"] = p, !["useTls"] = f] :
                h \in RequiredValues, p \in PortValues, f \in FlagValues}
      [] validator = "KINESIS" ->
            {[EmptyConfig EXCEPT !["region"] = r, !["stream"] = n, !["partitionKey"] = k] :
                r \in RequiredValues, n \in RequiredValues, k \in OptionalValues}

Connections(validator) ==
    {[kind |-> "null", config |-> EmptyConfig], [kind |-> "nullConfig", config |-> EmptyConfig]}
    \cup {[kind |-> "present", config |-> c] : c \in Configs(validator)}

\* A call that stops in parameter validation never reads env: those calls are run
\* against a reachable and against an unroutable, silent endpoint only.
ParameterEnvs ==
    {[answer |-> a, failAt |-> "call", delay |-> d, closeThrows |-> FALSE] :
        a \in {"ok", "unreachable"}, d \in {0, MaxTimeout + MaxExtraDelay}}

EnvsFor(validator, connection) ==
    IF connection.kind = "present" /\ validateConfiguration(validator, connection.config).kind = "ok"
    THEN Envs ELSE ParameterEnvs

(***************************************************************************)
(* The validators as a state machine: one validate call at a time;         *)
(* vcall records the call and what it did.                                 *)
(***************************************************************************)
InitValidate ==
    /\ target = {}
    /\ call = NoCall
    /\ pipelineConfigGroup \in GlobalConfigs
    /\ \E t \in 1..MaxTimeout : vcall = Idle(t)
    /\ invocations = [c \in Callers |-> NoInvocation]
    /\ clients = NoClients
    /\ fcall = NoApplication
    /\ chat = NoChat

Validate(validator) ==
    /\ vcall.validator = "none"
    /\ \E connection \in Connections(validator) :
         \E env \in EnvsFor(validator, connection) :
            LET out == validate(validator, connection, env, vcall.timeout)
            IN vcall' = [validator |-> validator, timeout |-> vcall.timeout,
                         connection |-> connection, env |-> env, kind |-> out.kind,
                         result |-> out.result, opened |-> out.opened,
                         closeCalls |-> out.closeCalls, calls |-> out.calls,
                         elapsed |-> out.elapsed]
    /\ UNCHANGED <<chat, target, call, pipelineConfigGroup, invocations, clients, fcall>>

ValidateMilvus == Validate("MILVUS")
ValidateRedis == Validate("REDIS")
ValidateQdrant == Validate("QDRANT")
ValidateKinesis == Validate("KINESIS")

\* The caller takes the result; the validators keep no state between calls.
ValidateReturns ==
    /\ vcall.validator # "none"
    /\ vcall' = Idle(vcall.timeout)
    /\ UNCHANGED <<chat, target, call, pipelineConfigGroup, invocations, clients, fcall>>

NextValidate ==
    \/ ValidateMilvus
    \/ ValidateRedis
    \/ ValidateQdrant
    \/ ValidateKinesis
    \/ ValidateReturns

SpecValidate == InitValidate /\ [][NextValidate]_vars

(***************************************************************************)
(* Properties of the validators                                            *)
(***************************************************************************)
Done == vcall.validator # "none"

\* The call reached the endpoint.
LiveCheckRan == Done /\ vcall.calls > 0

\* The required fields of each validator, in the order of the contract.
RequiredFields(validator) ==
    CASE validator = "MILVUS" -> <<"uri">>
      [] validator = "REDIS" -> <<"host", "port">>
      [] validator = "QDRANT" -> <<"hostname", "port">>
      [] validator = "KINESIS" -> <<"region", "stream">>

\* A required field is missing: no key, a null value, or (but for the port) a blank text.
Missing(config, field) ==
    \/ config[field].type \in {"absent", "null"}
    \/ /\ field # "port"
       /\ config[field].type = "String"
       /\ \A i \in 1..Len(config[field].v) : config[field].v[i] = " "

MissingFields(validator, config) ==
    {i \in 1..Len(RequiredFields(validator)) : Missing(config, RequiredFields(validator)[i])}

FirstMissing(validator, config) ==
    RequiredFields(validator)[CHOOSE i \in MissingFields(validator, config) :
                                 \A j \in MissingFields(validator, config) : i <= j]

\* The field a parameter message names.
namedField(message) ==
    CASE message \in {"URI must be specified", "URI must start with http:// or https://"} -> "uri"
      [] message = "Host must be specified" -> "host"
      [] message = "Hostname must be specified" -> "hostname"
      [] message \in {"Port must be specified", "Port must be a valid integer",
                      "Port must be between 1 and 65535"} -> "port"
      [] message = "useSsl must be 'true' or 'false' if specified" -> "useSsl"
      [] message = "Region must be specified" -> "region"
      [] message = "Stream name must be specified" -> "stream"
      [] OTHER -> "none"

\* The class of the taxonomy a message of a failed result belongs to.
classOf(message) ==
    CASE message \in {"Connection timeout - please check host, port and network connectivity",
                      "Connection timeout - please check hostname, port and network connectivity",
                      "Connection timeout - please check network connectivity"} -> "timeout"
      [] message \in {"Cannot connect to Milvus server - please check host and port configuration",
                      "Qdrant server is unavailable - please check if the server is running",
                      "TLS connection failed - check certificates and hostname",
                      "Failed to connect to Redis: "} -> "unavailable"
      [] message \in {"Authentication failed - please check username, password, or token",
                      "Authentication failed - please check API key"} -> "authentication"
      [] message \in {"Permission denied - please check API key permissions",
                      "Access denied: Check IAM permissions or credentials."} -> "permission"
      [] message \in {"Stream not found: Please verify the stream name and region.",
                      "Specified database does not exist - please check database name"} -> "not-found"
      [] namedField(message) # "none" \/ message = NULL_CONNECTION_MESSAGE -> "parameter"
      [] OTHER -> "generic"

C6_ClientClosed == Done => vcall.closeCalls = vcall.opened

\* A live check that opened a client and failed, with a close() that throws.
C6_Witness ==
    /\ Done
    /\ vcall.opened = 1
    /\ ~vcall.result.valid
    /\ vcall.env.closeThrows
    /\ vcall.closeCalls = 1

\* The inputs on which validate raises an exception outside the inner handlers:
\* a null config map, or a null value under an optional key of Redis.
RaisesUnexpected ==
    \/ vcall.connection.kind = "nullConfig"
    \/ /\ vcall.connection.kind = "present"
       /\ vcall.validator = "REDIS"
       /\ \/ /\ vcall.connection.config["useSsl"].type = "null"
             /\ validateConfiguration("REDIS", [vcall.connection.config EXCEPT
                                                   !["useSsl"] = Absent]) = Passed
          \/ /\ vcall.connection.config["username"].type = "null"
             /\ validateConfiguration("REDIS", vcall.connection.config) = Passed

\* C7: validate never throws: every call returns a result, and an unexpected
\* exception becomes a failed result of the generic class.
C7_NeverThrows ==
    Done =>
        /\ vcall.kind \in {"ok", "failed"}
        /\ vcall.result.valid = (vcall.kind = "ok")
        /\ RaisesUnexpected =>
              /\ ~vcall.result.valid
              /\ classOf(vcall.result.message) = "generic"

\* A connection whose config map is null got a failed result of the generic class.
C7_Witness ==
    /\ Done
    /\ vcall.connection.kind = "nullConfig"
    /\ vcall.kind = "failed"
    /\ classOf(vcall.result.message) = "generic"

\* C8: every validate call ends within the configured timeout: the validator
\* applies its timeout (seconds) to the live check.
C8_WithinTimeout == Done => vcall.elapsed <= vcall.timeout

\* C9: a live check that fails because the network is unreachable or the deadline
\* is exceeded returns valid=false with a message of the timeout (or unavailable)
\* class, never of the generic class.
C9_TimeoutClass ==
    (LiveCheckRan /\ vcall.env.answer \in {"unreachable", "deadline"}) =>
        /\ ~vcall.result.valid
        /\ classOf(vcall.result.message) \in {"timeout", "unavailable"}

\* The class the taxonomy gives to what the endpoint reported.
classOfCause(cause) ==
    CASE cause = "badCredentials" -> "authentication"
      [] cause = "unauthorized" -> "permission"
      [] cause = "notFound" -> "not-found"
      [] cause \in {"unreachable", "deadline"} -> "timeout"
      [] OTHER -> "generic"

\* C10: the classes of the taxonomy stay distinct: bad credentials yield an
\* authentication-class message, an unauthorized caller a permission-class message,
\* a missing named resource a not-found-class message, and a message is generic only
\* if the failure matches no class.
C10_ClassesDistinct ==
    (LiveCheckRan /\ ~vcall.result.valid /\ vcall.env.delay <= vcall.timeout) =>
        /\ vcall.env.answer \in {"badCredentials", "unauthorized", "notFound"} =>
              classOf(vcall.result.message) = classOfCause(vcall.env.answer)
        /\ classOf(vcall.result.message) = "generic" =>
              classOfCause(vcall.env.answer) = "generic"

(***************************************************************************)
(* Concurrent validate calls.  The validators are application-scoped       *)
(* beans: any number of threads may be inside validate of one instance.    *)
(* Each thread runs validate in steps: the parameter phase, the client's   *)
(* construction, the operation, the finally block, the return.             *)
(* clients.status[k] is the state of the client object created by thread   *)
(* k, clients.closedBy[k] the thread that closed it, clients.ref[v] the    *)
(* client the variable v refers to.                                        *)
(***************************************************************************)
ValidConfig(validator) ==
    CASE validator = "MILVUS" -> [EmptyConfig EXCEPT !["uri"] = Str(<<"http://", "h">>)]
      [] validator = "REDIS" ->
            [EmptyConfig EXCEPT !["host"] = Str(<<"h">>), !["port"] = IntV(6379)]
      [] validator = "QDRANT" ->
            [EmptyConfig EXCEPT !["hostname"] = Str(<<"h">>), !["port"] = IntV(6334)]
      [] validator = "KINESIS" ->
            [EmptyConfig EXCEPT !["region"] = Str(<<"h">>), !["stream"] = Str(<<"h">>)]

Endpoint(answer, failAt) ==
    [answer |-> answer, failAt |-> failAt, delay |-> 0, closeThrows |-> FALSE]

\* The validate calls the threads make.
ConcurrentInputs ==
    <<[validator |-> "REDIS",
       connection |-> [kind |-> "present", config |-> ValidConfig("REDIS")],
       env |-> Endpoint("ok", "call")],
      [validator |-> "REDIS",
       connection |-> [kind |-> "present", config |-> ValidConfig("REDIS")],
       env |-> Endpoint("unreachable", "call")],
      [validator |-> "REDIS",
       connection |-> [kind |-> "present", config |-> EmptyConfig],
       env |-> Endpoint("ok", "call")],
      [validator |-> "QDRANT",
       connection |-> [kind |-> "present", config |-> ValidConfig("QDRANT")],
       env |-> Endpoint("badCredentials", "call")],
      [validator |-> "MILVUS",
       connection |-> [kind |-> "present", config |-> ValidConfig("MILVUS")],
       env |-> Endpoint("unreachable", "open")],
      [validator |-> "KINESIS",
       connection |-> [kind |-> "present", config |-> ValidConfig("KINESIS")],
       env |-> Endpoint("notFound", "call")]>>

InputOf(c) == ConcurrentInputs[invocations[c].input]

\* A mutation of clientVariable: the client is kept in a field of the validator.
clientField(caller) == 0

\* The variable performConnectionValidation keeps its client in: a local variable,
\* one per invocation.
clientVariable(caller) == caller

\* validate up to the call of performConnectionValidation.
Enter(c) ==
    /\ invocations[c].pc = "idle"
    /\ \E i \in 1..Len(ConcurrentInputs) :
         LET in == ConcurrentInputs[i]
             live == EnvsFor(in.validator, in.connection) = Envs
         IN invocations' =
               [invocations EXCEPT ![c] =
                   [pc |-> IF live THEN "checked" ELSE "returned",
                    input |-> i,
                    result |-> IF live THEN NoInvocation.result
                               ELSE validate(in.validator, in.connection, in.env,
                                             vcall.timeout).result]]
    /\ clients' = [clients EXCEPT !.ref[clientVariable(c)] = 0]
    /\ UNCHANGED <<chat, target, call, pipelineConfigGroup, vcall, fcall>>

\* The client's constructor: on success the variable refers to the new client.
Open(c) ==
    /\ invocations[c].pc = "checked"
    /\ LET in == InputOf(c)
           out == performConnectionValidation(in.validator, in.connection.config, in.env,
                                              vcall.timeout)
       IN IF out.opened = 0
          THEN /\ invocations' = [invocations EXCEPT ![c].pc = "finally",
                                                     ![c].result = out.result]
               /\ UNCHANGED clients
          ELSE /\ invocations' = [invocations EXCEPT ![c].pc = "opened"]
               /\ clients' = [clients EXCEPT !.status[c] = "open",
                                             !.ref[clientVariable(c)] = c]
    /\ UNCHANGED <<chat, target, call, pipelineConfigGroup, vcall, fcall>>

\* The read-only operation, sent through the client the variable refers to: it
\* reaches that client's endpoint, and fails on a null reference or a closed client.
Operate(c) ==
    /\ invocations[c].pc = "opened"
    /\ LET k == clients.ref[clientVariable(c)]
       IN invocations' =
             [invocations EXCEPT
                 ![c].pc = "finally",
                 ![c].result =
                     IF k = 0 \/ clients.status[k] # "open"
                     THEN failed(unexpectedError(InputOf(c).validator))
                     ELSE performConnectionValidation(InputOf(c).validator,
                                                      InputOf(k).connection.config,
                                                      InputOf(k).env, vcall.timeout).result]
    /\ UNCHANGED <<chat, target, call, pipelineConfigGroup, vcall, clients, fcall>>

\* finally: close() on the client the variable refers to, if any.
Finally(c) ==
    /\ invocations[c].pc = "finally"
    /\ LET k == clients.ref[clientVariable(c)]
       IN IF k # 0 /\ clients.status[k] = "open"
          THEN clients' = [clients EXCEPT !.status[k] = "closed", !.closedBy[k] = c]
          ELSE UNCHANGED clients
    /\ invocations' = [invocations EXCEPT ![c].pc = "returned"]
    /\ UNCHANGED <<chat, target, call, pipelineConfigGroup, vcall, fcall>>

\* validate returns; the client object of the invocation is garbage.
Return(c) ==
    /\ invocations[c].pc = "returned"
    /\ invocations' = [invocations EXCEPT ![c] = NoInvocation]
    /\ clients' = [clients EXCEPT !.status[c] = "none", !.closedBy[c] = 0]
    /\ UNCHANGED <<chat, target, call, pipelineConfigGroup, vcall, fcall>>

InitConcurrent ==
    /\ target = {}
    /\ call = NoCall
    /\ pipelineConfigGroup \in GlobalConfigs
    /\ \E t \in 1..MaxTimeout : vcall = Idle(t)
    /\ invocations = [c \in Callers |-> NoInvocation]
    /\ clients = NoClients
    /\ fcall = NoApplication
    /\ chat = NoChat

NextConcurrent ==
    \/ \E c \in Callers : Enter(c)
    \/ \E c \in Callers : Open(c)
    \/ \E c \in Callers : Operate(c)
    \/ \E c \in Callers : Finally(c)
    \/ \E c \in Callers : Return(c)

SpecConcurrent == InitConcurrent /\ [][NextConcurrent]_vars

\* C11: no client state is shared between validate invocations: under every
\* interleaving each call works on the client it opened, a client is closed only
\* by the call that opened it and is closed when that call returns, and the
\* result is the one the call yields when it runs alone on its own configuration.
C11_NoSharedClientState ==
    \A c \in Callers :
        /\ clients.closedBy[c] \in {0, c}
        /\ invocations[c].pc = "opened" => clients.status[c] = "open"
        /\ invocations[c].pc = "returned" =>
              /\ clients.status[c] # "open"
              /\ invocations[c].result
                    = validate(InputOf(c).validator, InputOf(c).connection, InputOf(c).env,
                               vcall.timeout).result

\* Two calls with different inputs overlap: one has returned a valid result and
\* closed its client while the other still holds its own open client.
C11_Witness ==
    \E c, d \in Callers :
        /\ c # d
        /\ invocations[c].pc = "returned"
        /\ invocations[c].result.valid
        /\ clients.closedBy[c] = c
        /\ invocations[d].pc = "opened"
        /\ invocations[d].input # invocations[c].input
        /\ clients.status[d] = "open"

\* C12: a validate call whose parameter validation passed opens one client and
\* sends exactly one read-only operation to the endpoint; nothing is repeated.
C12_OneOperation == LiveCheckRan => (vcall.opened <= 1 /\ vcall.calls = 1)

\* The port values the contract accepts: an integer, or a text that parses as one,
\* between 1 and 65535.
PortAcceptable(value) ==
    \/ value.type = "Integer" /\ value.v >= 1 /\ value.v <= 65535
    \/ /\ value.type = "String"
       /\ parseInt(value.v).ok
       /\ parseInt(value.v).v >= 1
       /\ parseInt(value.v).v <= 65535

\* C13: for the validators with a port field, a port that is present but is not an
\* integer in [1,65535] yields valid=false with a message naming the port, and no
\* client is opened.
C13_PortRange ==
    (/\ Done
     /\ vcall.validator \in {"REDIS", "QDRANT"}
     /\ vcall.connection.kind = "present"
     /\ MissingFields(vcall.validator, vcall.connection.config) = {}
     /\ ~PortAcceptable(vcall.connection.config["port"])) =>
        /\ ~vcall.result.valid
        /\ namedField(vcall.result.message) = "port"
        /\ vcall.opened = 0
        /\ vcall.calls = 0

(***************************************************************************)
(* Storage configuration: TableNameResolver with a literal suffix,         *)
(* OffsetConfigurationFactory, SchemaHistoryConfigurationFactory and the   *)
(* stores OperatorPipelineController.getOffset / getSchemaHistory build.   *)
(***************************************************************************)
OFFSET_JDBC == "io.debezium.storage.jdbc.offset.JdbcOffsetBackingStore"
OFFSET_FILE == "org.apache.kafka.connect.storage.FileOffsetBackingStore"
OFFSET_SUFFIX == <<"o", "f", "f", "s", "e", "t">>

SCHEMA_HISTORY_JDBC == "io.debezium.storage.jdbc.history.JdbcSchemaHistory"
SCHEMA_HISTORY_FILE == "io.debezium.storage.file.history.FileSchemaHistory"
SCHEMA_HISTORY_SUFFIX ==
    <<"s", "c", "h", "e", "m", "a", "_", "h", "i", "s", "t", "o", "r", "y">>

FILE_FILENAME_CONFIG == "file.filename"
PROP_JDBC_URL == "jdbc.url"
PROP_USER == "jdbc.user"
PROP_PASSWORD == "jdbc.password"

\* The keys a storage config map is read at; Map.get of an absent key is Null.
StorageKeys ==
    {SCHEMA_HISTORY_TABLE_KEY, OFFSET_TABLE_KEY, FILE_FILENAME_CONFIG,
     PROP_JDBC_URL, PROP_USER, PROP_PASSWORD}

\* String.format("%s", null) prints "null".
formatted(s) == IF s = Null THEN <<"n", "u", "l", "l">> ELSE s

\* resolve(pipeline, offsetSuffix) of the resolver that appends a literal suffix.
resolveSuffix(name, offsetSuffix) ==
    IF name = Null \/ name = <<>>
    THEN [error |-> "IllegalArgumentException", value |-> Null]
    ELSE [error |-> "none",
          value |-> sanitizeTableName(name) \o <<"_">> \o formatted(offsetSuffix)]

\* The store variants of an Offset / SchemaHistory; a variant not set is NullStore.
Variants == {"file", "jdbc", "kafka", "redis", "configMap", "memory", "store"}
NullStore == [kind |-> "null"]
NoVariant == [v \in Variants |-> NullStore]

Built(value) == [error |-> "none", message |-> <<>>, value |-> value]
Thrown(error, message) == [error |-> error, message |-> message, value |-> NoVariant]

buildFileConfigs(configs) ==
    Built([NoVariant EXCEPT
              !["file"] = [kind |-> "file", fileName |-> configs[FILE_FILENAME_CONFIG]]])

buildJdbcConfigs(name, configs, suffix) ==
    LET table == resolveSuffix(name, suffix)
    IN IF table.error # "none"
       THEN Thrown(table.error, <<"Table name cannot be null or empty">>)
       ELSE Built([NoVariant EXCEPT
                      !["jdbc"] = [kind |-> "jdbc",
                                   url |-> configs[PROP_JDBC_URL],
                                   user |-> configs[PROP_USER],
                                   password |-> configs[PROP_PASSWORD],
                                   table |-> table.value]])

\* OffsetConfigurationFactory.create
createOffset(name, cfg) ==
    LET pipelineOffsetConfigs == cfg.offset.config
        type == cfg.offset.type
    IN CASE type = OFFSET_JDBC -> buildJdbcConfigs(name, pipelineOffsetConfigs, OFFSET_SUFFIX)
         [] type = OFFSET_FILE -> buildFileConfigs(pipelineOffsetConfigs)
         [] OTHER -> Thrown("DebeziumException", <<"Offset type %s not supported", type>>)

\* SchemaHistoryConfigurationFactory.create: type and config map are read from
\* pipelineConfigGroup.offset().storage().
createSchemaHistory(name, cfg) ==
    LET pipelineOffsetConfigs == cfg.offset.config
        type == cfg.offset.type
    IN CASE type = SCHEMA_HISTORY_JDBC ->
                buildJdbcConfigs(name, pipelineOffsetConfigs, SCHEMA_HISTORY_SUFFIX)
         [] type = SCHEMA_HISTORY_FILE -> buildFileConfigs(pipelineOffsetConfigs)
         [] OTHER -> Thrown("DebeziumException", <<"Schema history %s not supported", type>>)

\* The store getOffset / getSchemaHistory of the controller build: a custom store
\* with the configured type and the config map, both table keys resolved.
customStore(name, storage) ==
    LET props == [k \in StorageKeys |->
                     IF k \in {SCHEMA_HISTORY_TABLE_KEY, OFFSET_TABLE_KEY}
                     THEN resolve(name, storage.config[k]).value
                     ELSE storage.config[k]]
    IN [NoVariant EXCEPT
           !["store"] = [kind |-> "custom", type |-> storage.type, config |-> props]]

offsetOf(p, cfg) ==
    IF getOffset(p, cfg) # "none"
    THEN Thrown(getOffset(p, cfg), <<>>)
    ELSE Built(customStore(p.name, cfg.offset))

schemaHistoryOf(p, cfg) ==
    IF getSchemaHistory(p, cfg) # "none"
    THEN Thrown(getSchemaHistory(p, cfg), <<>>)
    ELSE Built(customStore(p.name, cfg.schema))

(***************************************************************************)
(* Inputs of the storage configuration                                     *)
(***************************************************************************)
LongName == [i \in 1..MAX_IDENTIFIER_LENGTH |-> "a"]

TestPipelineBang ==
    <<"T", "e", "s", "t", " ", "P", "i", "p", "e", "l", "i", "n", "e", "!">>
TestPipelineDash ==
    <<"t", "e", "s", "t", "-", "p", "i", "p", "e", "l", "i", "n", "e">>

CompileNames ==
    {<<>>, <<"a">>, <<"A">>, <<"a", "-", "b">>, <<"a", "_", "b">>, <<"1", "a">>,
     TestPipelineBang, TestPipelineDash, LongName}

\* Values of a table-name key: templates with the placeholder, literal texts, none.
Templates ==
    {Null, <<>>, <<PH>>, <<PH>> \o <<"_">> \o OFFSET_SUFFIX,
     <<PH>> \o <<"_">> \o SCHEMA_HISTORY_SUFFIX, OFFSET_SUFFIX, SCHEMA_HISTORY_SUFFIX}

Suffixes == {OFFSET_SUFFIX, SCHEMA_HISTORY_SUFFIX, <<"X", "!">>}

NoConfig == [k \in StorageKeys |-> Null]

FileConfig == [NoConfig EXCEPT ![FILE_FILENAME_CONFIG] = <<"f">>]

JdbcConfig(tableKey, template) ==
    [NoConfig EXCEPT ![PROP_JDBC_URL] = <<"u">>, ![PROP_USER] = <<"t">>,
                     ![PROP_PASSWORD] = <<"p">>, ![tableKey] = template]

OffsetStorages ==
    { [type |-> OFFSET_JDBC,
       config |-> JdbcConfig(OFFSET_TABLE_KEY, <<PH>> \o <<"_">> \o OFFSET_SUFFIX)],
      [type |-> OFFSET_JDBC, config |-> JdbcConfig(OFFSET_TABLE_KEY, Null)],
      [type |-> OFFSET_FILE, config |-> FileConfig],
      [type |-> "org.apache.kafka.connect.storage.KafkaOffsetBackingStore",
       config |-> NoConfig],
      [type |-> "org.apache.kafka.connect.storage.MemoryOffsetBackingStore",
       config |-> NoConfig],
      [type |-> "io.custom.MyCustomOffset", config |-> NoConfig] }

SchemaStorages ==
    { [type |-> SCHEMA_HISTORY_JDBC,
       config |-> JdbcConfig(SCHEMA_HISTORY_TABLE_KEY,
                             <<PH>> \o <<"_">> \o SCHEMA_HISTORY_SUFFIX)],
      [type |-> SCHEMA_HISTORY_JDBC, config |-> JdbcConfig(SCHEMA_HISTORY_TABLE_KEY, Null)],
      [type |-> SCHEMA_HISTORY_FILE, config |-> FileConfig],
      [type |-> "io.debezium.storage.kafka.history.KafkaSchemaHistory",
       config |-> NoConfig],
      [type |-> "io.debezium.relational.history.MemorySchemaHistory",
       config |-> NoConfig],
      [type |-> "io.custom.MyCustomOffset", config |-> NoConfig] }

\* pipelineConfigGroup: offset().storage() and schema() (internal() is its type).
StorageConfigs == [offset : OffsetStorages, schema : SchemaStorages]

PipelineNamed(name) == [NoPipeline EXCEPT !.id = 1, !.name = name]

(***************************************************************************)
(* The storage configuration as a state machine: fcall records the last    *)
(* application.  The resolvers are applied to two pipelines at a time.     *)
(***************************************************************************)
InitStorage ==
    /\ target = {}
    /\ call = NoCall
    /\ pipelineConfigGroup \in StorageConfigs
    /\ vcall = Idle(1)
    /\ invocations = [c \in Callers |-> NoInvocation]
    /\ clients = NoClients
    /\ fcall = NoApplication
    /\ chat = NoChat

Compiled(op, axis, name, result) ==
    /\ fcall = NoApplication
    /\ fcall' = [op |-> op, axis |-> axis, name |-> name, result |-> result]
    /\ UNCHANGED <<chat, target, call, pipelineConfigGroup, vcall, invocations, clients>>

CreateOffset ==
    \E name \in CompileNames :
        Compiled("create", "offset", name, createOffset(name, pipelineConfigGroup))

CreateSchemaHistory ==
    \E name \in CompileNames :
        Compiled("create", "schema", name, createSchemaHistory(name, pipelineConfigGroup))

GetOffset ==
    \E name \in CompileNames :
        Compiled("get", "offset", name, offsetOf(PipelineNamed(name), pipelineConfigGroup))

GetSchemaHistory ==
    \E name \in CompileNames :
        Compiled("get", "schema", name,
                 schemaHistoryOf(PipelineNamed(name), pipelineConfigGroup))

Resolved(op, name, other, arg, result, otherResult) ==
    /\ fcall = NoApplication
    /\ fcall' = [op |-> op, name |-> name, other |-> other, arg |-> arg,
                 result |-> result, otherResult |-> otherResult]
    /\ UNCHANGED <<chat, target, call, pipelineConfigGroup, vcall, invocations, clients>>

Resolve ==
    \E name, other \in CompileNames, currentValue \in Templates :
        Resolved("resolve", name, other, currentValue,
                 resolve(name, currentValue), resolve(other, currentValue))

ResolveSuffix ==
    \E name, other \in CompileNames, offsetSuffix \in Suffixes :
        Resolved("resolveSuffix", name, other, offsetSuffix,
                 resolveSuffix(name, offsetSuffix), resolveSuffix(other, offsetSuffix))

\* The caller takes the result; the next application starts afresh.
StorageReturns ==
    /\ fcall # NoApplication
    /\ fcall' = NoApplication
    /\ UNCHANGED <<chat, target, call, pipelineConfigGroup, vcall, invocations, clients>>

NextStorage ==
    \/ CreateOffset
    \/ CreateSchemaHistory
    \/ GetOffset
    \/ GetSchemaHistory
    \/ Resolve
    \/ ResolveSuffix
    \/ StorageReturns

SpecStorage == InitStorage /\ [][NextStorage]_vars

(***************************************************************************)
(* Properties of the storage configuration                                 *)
(***************************************************************************)
CompileDone == fcall.op \in {"create", "get"}

ResolveDone == fcall.op \in {"resolve", "resolveSuffix"}

\* The settings of the axis the application compiled.
Configured == pipelineConfigGroup[fcall.axis]

\* The variant a known backend type identifier selects on an axis.
VariantOf(axis, type) ==
    CASE axis = "offset" /\ type = OFFSET_JDBC -> "jdbc"
      [] axis = "offset" /\ type = OFFSET_FILE -> "file"
      [] axis = "offset"
         /\ type = "org.apache.kafka.connect.storage.KafkaOffsetBackingStore" -> "kafka"
      [] axis = "offset"
         /\ type = "io.debezium.storage.redis.offset.RedisOffsetBackingStore" -> "redis"
      [] axis = "offset"
         /\ type = "io.debezium.storage.configmap.ConfigMapOffsetStore" -> "configMap"
      [] axis = "offset"
         /\ type = "org.apache.kafka.connect.storage.MemoryOffsetBackingStore" -> "memory"
      [] axis = "schema" /\ type = SCHEMA_HISTORY_JDBC -> "jdbc"
      [] axis = "schema" /\ type = SCHEMA_HISTORY_FILE -> "file"
      [] axis = "schema"
         /\ type = "io.debezium.storage.kafka.history.KafkaSchemaHistory" -> "kafka"
      [] axis = "schema"
         /\ type = "io.debezium.storage.redis.history.RedisSchemaHistory" -> "redis"
      [] axis = "schema"
         /\ type = "io.debezium.relational.history.MemorySchemaHistory" -> "memory"
      [] OTHER -> "unknown"

Populated(value) == {v \in Variants : value[v] # NullStore}

\* C14: on both axes, compiling with a configured backend type that is not a known
\* identifier fails with an error whose message names that type; no variant is
\* built, the unknown type is not passed through.
C14_UnknownTypeFails ==
    (CompileDone /\ VariantOf(fcall.axis, Configured.type) = "unknown") =>
        /\ fcall.result.error = "DebeziumException"
        /\ Len(fcall.result.message) = 2
        /\ fcall.result.message[2] = Configured.type
        /\ Populated(fcall.result.value) = {}

\* C15: for every known backend type tag on either axis the compiled config has
\* exactly the variant matching the tag populated, with the fields of the global
\* config map, and every other variant absent.
C15_KnownTypeVariant ==
    (/\ CompileDone
     /\ fcall.name # <<>>
     /\ VariantOf(fcall.axis, Configured.type) # "unknown") =>
        /\ fcall.result.error = "none"
        /\ Populated(fcall.result.value) = {VariantOf(fcall.axis, Configured.type)}
        /\ fcall.result.value["file"] # NullStore =>
              fcall.result.value["file"].fileName = Configured.config[FILE_FILENAME_CONFIG]
        /\ fcall.result.value["jdbc"] # NullStore =>
              /\ fcall.result.value["jdbc"].url = Configured.config[PROP_JDBC_URL]
              /\ fcall.result.value["jdbc"].user = Configured.config[PROP_USER]
              /\ fcall.result.value["jdbc"].password = Configured.config[PROP_PASSWORD]

\* The application of fcall run again under other process-wide settings.
Recompiled(cfg) ==
    CASE fcall.op = "create" /\ fcall.axis = "offset" -> createOffset(fcall.name, cfg)
      [] fcall.op = "create" /\ fcall.axis = "schema" -> createSchemaHistory(fcall.name, cfg)
      [] fcall.op = "get" /\ fcall.axis = "offset" -> offsetOf(PipelineNamed(fcall.name), cfg)
      [] fcall.op = "get" /\ fcall.axis = "schema" ->
            schemaHistoryOf(PipelineNamed(fcall.name), cfg)

\* C16: each storage axis is configured independently: the config of an axis is
\* derived from that axis's type and config map only, so it is the same whatever
\* the other axis is set to, and for a File or Jdbc type of its own it has exactly
\* one active variant.
C16_AxesIndependent ==
    CompileDone =>
        /\ fcall.axis = "offset" =>
              \A other \in SchemaStorages :
                  Recompiled([pipelineConfigGroup EXCEPT !.schema = other]) = fcall.result
        /\ fcall.axis = "schema" =>
              \A other \in OffsetStorages :
                  Recompiled([pipelineConfigGroup EXCEPT !.offset = other]) = fcall.result
        /\ (/\ fcall.name # <<>>
            /\ VariantOf(fcall.axis, Configured.type) \in {"file", "jdbc"}) =>
              /\ fcall.result.error = "none"
              /\ Cardinality(Populated(fcall.result.value)) = 1

\* The table name a compiled config carries, Null when it has none.
TableOf(axis, value) ==
    IF value["jdbc"] # NullStore THEN value["jdbc"].table
    ELSE IF value["store"] # NullStore
    THEN value["store"].config[IF axis = "offset" THEN OFFSET_TABLE_KEY
                               ELSE SCHEMA_HISTORY_TABLE_KEY]
    ELSE Null

\* C17: a compiled storage config carries a table name only where its backend is
\* Jdbc: with offset backend File and schema-history backend Jdbc the offset config
\* has no table entry and the schema-history table name is the sanitized pipeline
\* name followed by "_schema_history".
C17_TableOnlyForJdbc ==
    (/\ CompileDone
     /\ fcall.name # <<>>
     /\ pipelineConfigGroup.offset.type = OFFSET_FILE
     /\ pipelineConfigGroup.schema.type = SCHEMA_HISTORY_JDBC) =>
        /\ fcall.result.error = "none"
        /\ fcall.axis = "offset" => TableOf("offset", fcall.result.value) = Null
        /\ fcall.axis = "schema" =>
              TableOf("schema", fcall.result.value)
                 = sanitizeTableName(fcall.name) \o <<"_">> \o SCHEMA_HISTORY_SUFFIX

\* C18: for every pipeline name and every template or suffix the identifier resolve
\* returns is at most 63 bytes long, does not start with a digit and contains only
\* characters of [a-z0-9_].
C18_IdentifierShape ==
    (ResolveDone /\ fcall.result.error = "none" /\ fcall.result.value # Null) =>
        /\ Len(fcall.result.value) <= MAX_IDENTIFIER_LENGTH
        /\ Len(fcall.result.value) > 0 => fcall.result.value[1] \notin Digits
        /\ \A i \in 1..Len(fcall.result.value) :
              fcall.result.value[i] \in LowerLetters \cup Digits \cup {"_"}

\* The argument of resolve carries the pipeline name into the identifier.
NameBearing == fcall.op = "resolveSuffix" \/ hasPlaceholder(fcall.arg)

\* C19: generated identifiers are a stable, injective function of the pipeline
\* name: for a fixed template or suffix the same name yields the same identifier
\* and two pipelines with distinct names get distinct identifiers.
C19_Injective ==
    (/\ ResolveDone
     /\ NameBearing
     /\ fcall.result.error = "none"
     /\ fcall.otherResult.error = "none") =>
        /\ fcall.name = fcall.other => fcall.result.value = fcall.otherResult.value
        /\ fcall.name # fcall.other => fcall.result.value # fcall.otherResult.value

\* C20: when the input contains no recognized placeholder, resolve(pipeline, suffix)
\* returns sanitize(pipeline.name) + "_" + suffix.
C20_LiteralSuffix ==
    (/\ ResolveDone
     /\ fcall.name # <<>>
     /\ fcall.arg \notin {Null, <<>>}
     /\ ~hasPlaceholder(fcall.arg)) =>
        /\ fcall.result.error = "none"
        /\ fcall.result.value = sanitizeTableName(fcall.name) \o <<"_">> \o fcall.arg

\* The table-name key of an axis.
TableKey(axis) == IF axis = "offset" THEN OFFSET_TABLE_KEY ELSE SCHEMA_HISTORY_TABLE_KEY

\* C21: resolve fails with an invalid-argument error whenever the table name base
\* it is given is null or empty, also when the controller passes it the value of a
\* table-name key that is missing from the storage config.
C21_EmptyBaseFails ==
    /\ (fcall.op = "resolveSuffix" /\ fcall.name = <<>>) =>
          fcall.result.error = "IllegalArgumentException"
    /\ (fcall.op = "resolve" /\ fcall.arg \in {Null, <<>>}) =>
          fcall.result.error = "IllegalArgumentException"
    /\ (fcall.op = "get" /\ Configured.config[TableKey(fcall.axis)] = Null) =>
          fcall.result.error = "IllegalArgumentException"

\* C30: whenever resolve returns normally for a pipeline with a non-empty name, the
\* identifier is a non-empty string that starts with a letter or an underscore;
\* resolve never returns null or the empty string.
C30_NonEmptyIdentifier ==
    (ResolveDone /\ fcall.name # <<>> /\ fcall.result.error = "none") =>
        /\ fcall.result.value # Null
        /\ fcall.result.value # <<>>
        /\ fcall.result.value[1] \in LowerLetters \cup {"_"}

(***************************************************************************)
(* OperatorPipelineController.deploy: the resource it compiles.  The maps  *)
(* it reads and the ConfigProperties it fills are objects of a heap; a     *)
(* ConfigProperties variable is bound to the object that holds its props.  *)
(***************************************************************************)
MaxTransforms == 2

SIGNAL_ENABLED_CHANNELS_CONFIG == "signal.enabled.channels"
NOTIFICATION_ENABLED_CHANNELS_CONFIG == "notification.enabled.channels"
DEFAULT_SIGNAL_CHANNELS == <<"source,in-process">>
DEFAULT_NOTIFICATION_CHANNELS == <<"log">>

ConfigKeys ==
    StorageKeys \cup {SIGNAL_ENABLED_CHANNELS_CONFIG, NOTIFICATION_ENABLED_CHANNELS_CONFIG,
                      "database.hostname"}

NoProps == [k \in ConfigKeys |-> Null]

\* A config map as a map over ConfigKeys; a key it lacks is Null.
asMap(config) == [k \in ConfigKeys |-> IF k \in DOMAIN config THEN config[k] ELSE Null]

\* The maps deploy is given, and the objects it creates.
InputMaps == {"source.getConfig()", "sink.getConfig()", "offset().storage().config()",
              "schema().config()"}
LocalMaps == {"sourceConfig", "sinkConfig", "offsetStorageConfigs", "offsetStorageProps",
              "schemaHistoryStorageConfigs", "schemaHistoryProps"}

\* Map.putAll
putAll(into, from) == [k \in ConfigKeys |-> IF from[k] # Null THEN from[k] ELSE into[k]]

\* A mutation of setAllProps: the ConfigProperties keeps the map it is given.
setAllPropsAdopts(st, props, from) == [st EXCEPT !.binding[props] = from]

\* ConfigProperties.setAllProps(map): the entries are copied into its own props.
setAllProps(st, props, from) ==
    [st EXCEPT !.heap[st.binding[props]] = putAll(st.heap[st.binding[props]], st.heap[from])]

\* ConfigProperties.setProps(name, value): put, replacing an entry of that name.
setProps(st, props, name, value) ==
    [st EXCEPT !.heap[st.binding[props]][name] = value]

\* map.forEach(props::setProps)
forEachSetProps(st, props, from) ==
    [st EXCEPT !.heap[st.binding[props]] = putAll(st.heap[st.binding[props]], st.heap[from])]

\* new HashMap<>(map)
newHashMap(st, props, from) == [st EXCEPT !.heap[props] = st.heap[from]]

\* RESOLVABLE_CONFIGS.forEach(prop -> props.setProps(prop, resolve(pipeline, map.get(prop))))
RECURSIVE resolveInto(_, _, _, _, _)
resolveInto(st, props, from, name, keys) ==
    IF keys = <<>> \/ st.error # "none" THEN st
    ELSE LET r == resolve(name, st.heap[from][keys[1]])
         IN IF r.error # "none" THEN [st EXCEPT !.error = r.error]
            ELSE resolveInto(setProps(st, props, keys[1], r.value),
                             props, from, name, Tail(keys))

\* Lines 97-101: the source configuration with the two channel settings.
sourceConfigOf(st) ==
    setProps(setProps(setAllProps(st, "sourceConfig", "source.getConfig()"),
                      "sourceConfig", SIGNAL_ENABLED_CHANNELS_CONFIG, DEFAULT_SIGNAL_CHANNELS),
             "sourceConfig", NOTIFICATION_ENABLED_CHANNELS_CONFIG,
             DEFAULT_NOTIFICATION_CHANNELS)

\* getOffset: copy, fill the props, resolve the table names read from the given map.
offsetPropsOf(st, name) ==
    resolveInto(forEachSetProps(newHashMap(st, "offsetStorageConfigs",
                                       "offset().storage().config()"),
                                "offsetStorageProps", "offsetStorageConfigs"),
                "offsetStorageProps", "offset().storage().config()", name,
                RESOLVABLE_CONFIGS)

\* getSchemaHistory: copy, fill the props, resolve the table names read from the copy.
schemaHistoryPropsOf(st, name) ==
    IF st.error # "none" THEN st
    ELSE resolveInto(forEachSetProps(newHashMap(st, "schemaHistoryStorageConfigs",
                                            "schema().config()"),
                                     "schemaHistoryProps", "schemaHistoryStorageConfigs"),
                     "schemaHistoryProps", "schemaHistoryStorageConfigs", name,
                     RESOLVABLE_CONFIGS)

sinkConfigOf(st) ==
    IF st.error # "none" THEN st ELSE setAllProps(st, "sinkConfig", "sink.getConfig()")

\* The Transformation built for a transform: its alias is set from getPredicateName.
transformationOf(transform) == [transform |-> transform.id, predicate |-> getPredicateName(transform)]

\* The predicate map: alias to the transform whose predicate it holds.
predicatesOf(transforms) ==
    {[alias |-> getPredicateName(transforms[i]), transform |-> transforms[i].id] :
        i \in 1..Len(transforms)}

\* Lines 121-128: the transformation list and the predicate map.
transformsOf(st, transforms) ==
    IF st.error # "none" THEN st
    ELSE IF buildTransformations(transforms) # "none"
    THEN [st EXCEPT !.error = buildTransformations(transforms)]
    ELSE IF buildPredicates(transforms) # "none"
    THEN [st EXCEPT !.error = buildPredicates(transforms)]
    ELSE [st EXCEPT !.transformations =
                        [i \in 1..Len(transforms) |-> transformationOf(transforms[i])],
                    !.predicates = predicatesOf(transforms)]

\* The maps deploy is given, as it finds them.
inputMaps(p, cfg) ==
    [o \in InputMaps |->
        CASE o = "source.getConfig()" -> asMap(p.source)
          [] o = "sink.getConfig()" -> asMap(p.sink)
          [] o = "offset().storage().config()" -> asMap(cfg.offset.config)
          [] o = "schema().config()" -> asMap(cfg.schema.config)]

\* deploy up to the resource it hands to the adapter.
compile(p, cfg) ==
    LET entry == [heap |-> [o \in InputMaps \cup LocalMaps |->
                               IF o \in InputMaps THEN inputMaps(p, cfg)[o] ELSE NoProps],
                  binding |-> [v \in LocalMaps |-> v],
                  error |-> "none",
                  transformations |-> <<>>,
                  predicates |-> {}]
    IN transformsOf(sinkConfigOf(schemaHistoryPropsOf(
           offsetPropsOf(sourceConfigOf(entry), p.name), p.name)), p.transforms)

(***************************************************************************)
(* Inputs of compile, and compile as a state machine on fcall.             *)
(***************************************************************************)
TransformIds == {7, 8, 17}

CompileTransforms == [id : TransformIds, hasPredicate : BOOLEAN]

CompileTransformLists == UNION {[1..n -> CompileTransforms] : n \in 0..MaxTransforms}

SourceMaps ==
    {[k \in {SIGNAL_ENABLED_CHANNELS_CONFIG, NOTIFICATION_ENABLED_CHANNELS_CONFIG,
             "database.hostname"} |->
         CASE k = SIGNAL_ENABLED_CHANNELS_CONFIG -> signal
           [] k = NOTIFICATION_ENABLED_CHANNELS_CONFIG -> notification
           [] OTHER -> <<"h">>] :
        signal \in {Null, <<"kafka">>}, notification \in {Null, <<"sink">>}}

SinkMap == [k \in {"database.hostname"} |-> <<"s">>]

CompilePipelines ==
    [name : {<<"a">>, <<"$">>}, source : SourceMaps, sink : {SinkMap},
     transforms : CompileTransformLists]

CompileConfigs ==
    {cfg \in StorageConfigs :
        /\ cfg.offset.type \in {OFFSET_JDBC, OFFSET_FILE}
        /\ cfg.schema.type \in {SCHEMA_HISTORY_JDBC, SCHEMA_HISTORY_FILE}}

InitCompile ==
    /\ target = {}
    /\ call = NoCall
    /\ pipelineConfigGroup \in CompileConfigs
    /\ vcall = Idle(1)
    /\ invocations = [c \in Callers |-> NoInvocation]
    /\ clients = NoClients
    /\ fcall = NoApplication
    /\ chat = NoChat

\* The same pipeline is compiled twice.
Compile ==
    /\ fcall = NoApplication
    /\ \E p \in CompilePipelines :
          fcall' = [op |-> "compile", pipeline |-> p,
                    given |-> inputMaps(p, pipelineConfigGroup),
                    result |-> compile(p, pipelineConfigGroup),
                    again |-> compile(p, pipelineConfigGroup)]
    /\ UNCHANGED <<chat, target, call, pipelineConfigGroup, vcall, invocations, clients>>

CompileReturns ==
    /\ fcall # NoApplication
    /\ fcall' = NoApplication
    /\ UNCHANGED <<chat, target, call, pipelineConfigGroup, vcall, invocations, clients>>

NextCompile == Compile \/ CompileReturns

SpecCompile == InitCompile /\ [][NextCompile]_vars

(***************************************************************************)
(* Properties of compile                                                   *)
(***************************************************************************)
Compiles == fcall.op = "compile" /\ fcall.result.error = "none"

DistinctIds(transforms) ==
    \A i, j \in 1..Len(transforms) : i # j => transforms[i].id # transforms[j].id

\* The alias the naming rule gives to the transform ids of the model.
ExpectedAlias(id) ==
    CASE id = 7 -> <<"p", "7">>
      [] id = 8 -> <<"p", "8">>
      [] id = 17 -> <<"p", "1", "7">>

\* C22: the predicate alias of a transform is "p" followed by its id (id 7 gives
\* "p7"); aliases are pairwise distinct whenever the ids are distinct, and compiling
\* the same transform list twice yields the same transformation list and predicate map.
C22_PredicateAlias ==
    fcall.op = "compile" =>
        /\ fcall.again.error = fcall.result.error
        /\ fcall.again.transformations = fcall.result.transformations
        /\ fcall.again.predicates = fcall.result.predicates
        /\ fcall.result.error = "none" =>
              /\ Len(fcall.result.transformations) = Len(fcall.pipeline.transforms)
              /\ \A i \in 1..Len(fcall.pipeline.transforms) :
                    /\ fcall.result.transformations[i].predicate
                          = ExpectedAlias(fcall.pipeline.transforms[i].id)
                    /\ [alias |-> ExpectedAlias(fcall.pipeline.transforms[i].id),
                        transform |-> fcall.pipeline.transforms[i].id]
                          \in fcall.result.predicates
              /\ \A i, j \in 1..Len(fcall.pipeline.transforms) :
                    fcall.pipeline.transforms[i].id # fcall.pipeline.transforms[j].id =>
                        fcall.result.transformations[i].predicate
                           # fcall.result.transformations[j].predicate

\* Transforms 7 and 17 compiled together: aliases "p7" and "p17".
C22_Witness ==
    /\ Compiles
    /\ Len(fcall.pipeline.transforms) = 2
    /\ fcall.pipeline.transforms[1].id = 7
    /\ fcall.pipeline.transforms[2].id = 17
    /\ fcall.result.transformations[1].predicate = <<"p", "7">>
    /\ fcall.result.transformations[2].predicate = <<"p", "1", "7">>
    /\ Cardinality(fcall.result.predicates) = 2

\* C23: a transform without predicate contributes no entry to the predicate map and
\* appears in the transformation list with no alias; the pipeline compiles, the
\* transformation list in the configured order.
C23_NoPredicateCompiles ==
    (/\ fcall.op = "compile"
     /\ fcall.pipeline.name = <<"a">>
     /\ DistinctIds(fcall.pipeline.transforms)) =>
        /\ fcall.result.error = "none"
        /\ Len(fcall.result.transformations) = Len(fcall.pipeline.transforms)
        /\ \A i \in 1..Len(fcall.pipeline.transforms) :
              /\ fcall.result.transformations[i].transform = fcall.pipeline.transforms[i].id
              /\ ~fcall.pipeline.transforms[i].hasPredicate =>
                    /\ fcall.result.transformations[i].predicate = Null
                    /\ \A e \in fcall.result.predicates :
                          e.transform # fcall.pipeline.transforms[i].id

\* The source configuration deploy built.
SourceConfigBuilt == fcall.result.heap[fcall.result.binding["sourceConfig"]]

\* C24: deploy adds the two source-configuration defaults only where the key is
\* absent from the source's config map; a configured value appears unchanged.
C24_DefaultsOnlyIfAbsent ==
    fcall.op = "compile" =>
        /\ SourceConfigBuilt["database.hostname"]
              = fcall.given["source.getConfig()"]["database.hostname"]
        /\ \A k \in {SIGNAL_ENABLED_CHANNELS_CONFIG, NOTIFICATION_ENABLED_CHANNELS_CONFIG} :
              fcall.given["source.getConfig()"][k] # Null =>
                  SourceConfigBuilt[k] = fcall.given["source.getConfig()"][k]
        /\ fcall.given["source.getConfig()"][SIGNAL_ENABLED_CHANNELS_CONFIG] = Null =>
              SourceConfigBuilt[SIGNAL_ENABLED_CHANNELS_CONFIG] = DEFAULT_SIGNAL_CHANNELS
        /\ fcall.given["source.getConfig()"][NOTIFICATION_ENABLED_CHANNELS_CONFIG] = Null =>
              SourceConfigBuilt[NOTIFICATION_ENABLED_CHANNELS_CONFIG]
                 = DEFAULT_NOTIFICATION_CHANNELS

\* C25: deploy treats the source, destination and storage config maps as read-only
\* input: after the call, whether it succeeds or fails, each map holds exactly the
\* entries it held before.
C25_InputMapsUnchanged ==
    fcall.op = "compile" =>
        \A o \in InputMaps : fcall.result.heap[o] = fcall.given[o]

\* A deploy that failed after it had filled the source configuration and the offset
\* props, on a source map without the two channel keys.
C25_Witness ==
    /\ fcall.op = "compile"
    /\ fcall.result.error # "none"
    /\ fcall.given["source.getConfig()"][SIGNAL_ENABLED_CHANNELS_CONFIG] = Null
    /\ SourceConfigBuilt[SIGNAL_ENABLED_CHANNELS_CONFIG] = DEFAULT_SIGNAL_CHANNELS
    /\ fcall.result.heap["offsetStorageProps"][PROP_JDBC_URL] # Null
    /\ fcall.result.heap["source.getConfig()"][SIGNAL_ENABLED_CHANNELS_CONFIG] = Null


(***************************************************************************)
(* ChatbotProvider (AIChatbotContext): the chatbot's WebSocket connection. *)
(* chat holds the React state and refs, the sockets created so far with    *)
(* their readyState, and the reconnect timers; the timer a socket's        *)
(* onclose schedules carries that socket's number.  Every action is one    *)
(* browser task: a user event with the effects it triggers, a socket       *)
(* event with its handlers, or a timer callback.                           *)
(***************************************************************************)

\* Math.pow(2, n)
RECURSIVE pow2(_)
pow2(n) == IF n = 0 THEN 1 ELSE 2 * pow2(n - 1)

\* Math.min(1000 * Math.pow(2, reconnectAttemptsRef.current), 30000)
reconnectDelay(attempts) == Min(1000 * pow2(attempts), 30000)

\* connectWebSocket returns at once: the current socket is OPEN or CONNECTING.
alreadyConnected(c) ==
    c.wsRef # 0 /\ c.sockets[c.wsRef] \in {"OPEN", "CONNECTING"}

\* The socket new WebSocket(wsUrl) creates.
newSocket(c) ==
    CHOOSE s \in SocketIds :
        c.sockets[s] = "none" /\ \A r \in SocketIds : c.sockets[r] = "none" => s <= r

\* connectWebSocket can run: it returns at once or there is a socket left to create.
canConnect(c) == alreadyConnected(c) \/ \E s \in SocketIds : c.sockets[s] = "none"

connectWebSocket(c) ==
    IF alreadyConnected(c) THEN c
    ELSE [c EXCEPT !.connectionStatus = "connecting",
                   !.sockets[newSocket(c)] = "CONNECTING",
                   !.wsRef = newSocket(c)]

\* clearTimeout of the timer held in the ref, close() of the current socket.
disconnectWebSocket(c) ==
    [c EXCEPT !.timers = [t \in SocketIds |->
                             IF t = c.reconnectTimeoutRef /\ c.timers[t].state = "pending"
                             THEN [c.timers[t] EXCEPT !.state = "cleared"]
                             ELSE c.timers[t]],
              !.reconnectTimeoutRef = 0,
              !.sockets = [s \in SocketIds |->
                              IF s = c.wsRef /\ c.sockets[s] \in {"CONNECTING", "OPEN"}
                              THEN "CLOSING" ELSE c.sockets[s]],
              !.wsRef = 0,
              !.connectionStatus = "disconnected"]

\* useEffect on isOpen: the cleanup of the previous effect, then the effect.
useEffect(c) ==
    IF c.isOpen THEN connectWebSocket(disconnectWebSocket(c))
    ELSE disconnectWebSocket(disconnectWebSocket(c))

onopen(c) == [c EXCEPT !.connectionStatus = "connected", !.reconnectAttemptsRef = 0]

onmessage(c) == [c EXCEPT !.isLoading = FALSE]

onerror(c) == [c EXCEPT !.connectionStatus = "error", !.isLoading = FALSE]

\* onclose of socket s: the reconnect timer it schedules is timer s.
onclose(c, s) ==
    IF c.reconnectAttemptsRef < maxReconnectAttempts
    THEN [c EXCEPT !.connectionStatus = "disconnected",
                   !.isLoading = FALSE,
                   !.timers[s] = [state |-> "pending",
                                  attempt |-> c.reconnectAttemptsRef,
                                  delay |-> reconnectDelay(c.reconnectAttemptsRef)],
                   !.reconnectTimeoutRef = s]
    ELSE [c EXCEPT !.connectionStatus = "disconnected", !.isLoading = FALSE]

\* The callback of a reconnect timer.
reconnect(c) ==
    connectWebSocket([c EXCEPT !.reconnectAttemptsRef = c.reconnectAttemptsRef + 1])

\* sendMessage: the catch branch when the current socket is not OPEN.
sendMessage(c) ==
    IF c.wsRef = 0 \/ c.sockets[c.wsRef] # "OPEN"
    THEN IF c.connectionStatus # "connecting"
         THEN connectWebSocket([c EXCEPT !.isLoading = FALSE])
         ELSE [c EXCEPT !.isLoading = FALSE]
    ELSE [c EXCEPT !.isLoading = TRUE]

InitChat ==
    /\ target = {}
    /\ call = NoCall
    /\ pipelineConfigGroup = CHOOSE g \in GlobalConfigs : TRUE
    /\ vcall = Idle(1)
    /\ invocations = [c \in Callers |-> NoInvocation]
    /\ clients = NoClients
    /\ fcall = NoApplication
    /\ chat = NoChat

ChatStep(after) ==
    /\ chat' = after
    /\ UNCHANGED <<target, call, pipelineConfigGroup, vcall, invocations, clients, fcall>>

\* toggleChatbot, the render and the effect on isOpen.
ToggleChatbot ==
    /\ ~chat.isOpen => canConnect(disconnectWebSocket(chat))
    /\ ChatStep(useEffect([chat EXCEPT !.isOpen = ~chat.isOpen]))

\* AIChatbot.handleSendMessage: the input is enabled and the status is 'connected'.
HandleSendMessage ==
    /\ ~chat.isLoading
    /\ chat.connectionStatus = "connected"
    /\ canConnect(chat)
    /\ ChatStep(sendMessage(chat))

\* The connection of socket s is established.
SocketOpens(s) ==
    /\ chat.sockets[s] = "CONNECTING"
    /\ ChatStep(onopen([chat EXCEPT !.sockets[s] = "OPEN"]))

\* The server sends a message on socket s.
SocketMessage(s) ==
    /\ chat.sockets[s] = "OPEN"
    /\ ChatStep(onmessage(chat))

\* The connection of socket s ends: readyState CLOSED, then the error event if the
\* connection failed, then the close event.
SocketCloses(s, withError) ==
    /\ chat.sockets[s] \in {"CONNECTING", "OPEN", "CLOSING"}
    /\ LET closed == [chat EXCEPT !.sockets[s] = "CLOSED"]
       IN ChatStep(onclose(IF withError THEN onerror(closed) ELSE closed, s))

\* Reconnect timer t fires.
TimerFires(t) ==
    /\ chat.timers[t].state = "pending"
    /\ canConnect(chat)
    /\ ChatStep(reconnect([chat EXCEPT !.timers[t].state = "fired"]))

SocketEvent ==
    \E s \in SocketIds :
        \/ SocketOpens(s)
        \/ SocketMessage(s)
        \/ \E withError \in BOOLEAN : SocketCloses(s, withError)

NextChat ==
    \/ ToggleChatbot
    \/ HandleSendMessage
    \/ SocketEvent
    \/ \E t \in SocketIds : TimerFires(t)

SpecChat == InitChat /\ [][NextChat]_vars

\* The browser delivers the events of a socket that is connecting or closing, and
\* runs the timers; the server's messages and the user's actions are not owed.
SocketSettles ==
    \E s \in SocketIds :
        \/ SocketOpens(s)
        \/ chat.sockets[s] \in {"CONNECTING", "CLOSING"} /\ SocketCloses(s, FALSE)

SpecChatLive ==
    /\ SpecChat
    /\ WF_vars(SocketSettles)
    /\ WF_vars(\E t \in SocketIds : TimerFires(t))


(***************************************************************************)
(* Claims about the chatbot connection                                     *)
(***************************************************************************)
PendingTimers == {t \in SocketIds : chat.timers[t].state = "pending"}

LiveSockets == {s \in SocketIds : chat.sockets[s] \in {"CONNECTING", "OPEN"}}

\* C26: while the chatbot is closed (isOpen is false, disconnectWebSocket has run)
\* there is no connecting or open WebSocket and no reconnect timer is pending, also
\* after the close event of the intentionally closed socket has been delivered.
C26_ClosedStaysDisconnected ==
    ~chat.isOpen => LiveSockets = {} /\ PendingTimers = {}

\* C27: connectionStatus describes the current socket: it is 'connected' only while
\* the socket in wsRef is OPEN, and while that socket is OPEN the status is neither
\* 'disconnected' nor 'error'.
C27_StatusOfCurrentSocket ==
    /\ chat.connectionStatus = "connected" =>
           chat.wsRef # 0 /\ chat.sockets[chat.wsRef] = "OPEN"
    /\ chat.wsRef # 0 /\ chat.sockets[chat.wsRef] = "OPEN" =>
           chat.connectionStatus \notin {"disconnected", "error"}

\* C28: at most maxReconnectAttempts reconnections are counted, the timer scheduled
\* at attempt n waits min(1000 * 2^n, 30000) ms, at most one reconnect timer is
\* pending at any time, and none is pending once the attempts are used up.
C28_BoundedBackoff ==
    /\ chat.reconnectAttemptsRef <= maxReconnectAttempts
    /\ \A t \in SocketIds :
           chat.timers[t].state # "none" =>
               chat.timers[t].delay = Min(1000 * pow2(chat.timers[t].attempt), 30000)
    /\ Cardinality(PendingTimers) <= 1
    /\ chat.reconnectAttemptsRef >= maxReconnectAttempts => PendingTimers = {}

\* C29: isLoading never stays true forever: whenever it is true it eventually
\* becomes false again, so the message input is eventually re-enabled.
C29_LoadingEnds == chat.isLoading ~> ~chat.isLoading
====
